---- MODULE Spec2Model ----
(***************************************************************************)
(* A model of elasticsearch_haystack.documentstore: the two mapper         *)
(* functions and the ElasticsearchStore class (count, write with duplicate *)
(* policy, delete, to_dict / from_dict), on top of the Elasticsearch calls *)
(* the class issues (get, bulk, delete, indices.refresh, cat.count).       *)
(*                                                                         *)
(* Python values: None is the string "None"; a dict is a function whose    *)
(* domain is a set of strings; a list is a sequence.                       *)
(***************************************************************************)
EXTENDS Naturals, Sequences, FiniteSets

VARIABLES
    es,        \* es[client][index_name]: the content of one index of one backend
    stores,    \* the ElasticsearchStore instances alive, in creation order
    origin,    \* origin[i]: the instance stores[i] was recreated from (0: constructed)
    last,      \* the last completed call: its arguments, outcome and backend calls
    mapper     \* the mapper's working state: a Document, its ES source, the Document read back

vars == <<es, stores, origin, last, mapper>>

----------------------------------------------------------------------------
(* Bounds *)

MaxDocs == 3         \* longest documents list passed to write_documents
MaxIds == 2          \* longest document_ids list passed to delete_documents
MaxStores == 2       \* store instances alive at once (configuration model)
MaxConfigDocs == 1   \* longest documents / ids list in the configuration model

----------------------------------------------------------------------------
(* Python dict helpers *)

None == "None"

EmptyDict == [k \in {} |-> None]

\* dict.get(key, default) / the value of dict.pop(key, default)
DictGet(d, key, default) == IF key \in DOMAIN d THEN d[key] ELSE default

\* the dict left after removing keys (del d[key], d.pop(key, ...))
DictWithout(d, keys) == [k \in DOMAIN d \ keys |-> d[k]]

\* {**a, **b}: b's entries win
DictMerge(a, b) == [k \in DOMAIN a \cup DOMAIN b |-> IF k \in DOMAIN b THEN b[k] ELSE a[k]]

DictPut(d, key, value) == [k \in DOMAIN d \cup {key} |-> IF k = key THEN value ELSE d[k]]

\* the sequences over S of length at most n
SeqUpTo(S, n) == UNION {[1..k -> S] : k \in 0..n}

----------------------------------------------------------------------------
(* The framework's Document (haystack.preview.dataclasses.document)        *)

\* The identifier the framework derives from the content when none is given.
DeriveId(content) == <<"sha256", content>>

\* Document.from_dict(d): the dataclass built from the dict's entries.
DocumentFromDict(d) ==
    [id           |-> IF "id" \in DOMAIN d THEN d["id"] ELSE DeriveId(d["content"]),
     content      |-> d["content"],
     content_type |-> d["content_type"],
     id_hash_keys |-> d["id_hash_keys"],
     score        |-> d["score"],
     embedding    |-> d["embedding"],
     metadata     |-> d["metadata"]]

\* document.to_dict(): one entry per dataclass field.
DocumentToDict(document) ==
    [k \in {"id", "content", "content_type", "id_hash_keys", "score", "embedding", "metadata"}
        |-> document[k]]

----------------------------------------------------------------------------
(* Mapper *)

convert_es_source_to_document(source) ==
    LET document_dict ==
            [content      |-> DictGet(source, "content", None),
             content_type |-> DictGet(source, "content_type", None),
             id_hash_keys |-> DictGet(source, "id_hash_keys", None),
             score        |-> DictGet(source, "score", None),
             embedding    |-> DictGet(source, "embedding", None),
             metadata     |-> DictWithout(source,
                                 {"content", "content_type", "id_hash_keys",
                                  "score", "embedding"})]
    IN  DocumentFromDict(document_dict)

convert_document_to_es_source(document) ==
    LET document_dict == DictWithout(DocumentToDict(document), {"id"})
        fixed ==
            [content      |-> DictGet(document_dict, "content", None),
             content_type |-> DictGet(document_dict, "content_type", None),
             id_hash_keys |-> DictGet(document_dict, "id_hash_keys", None),
             source       |-> DictGet(document_dict, "source", None),
             embedding    |-> DictGet(document_dict, "embedding", None)]
    IN  DictMerge(fixed, DictGet(document_dict, "metadata", EmptyDict))

----------------------------------------------------------------------------
(* The Elasticsearch calls the store issues.  `cluster` is the content of  *)
(* one backend: cluster[index_name] = [docs, searchable], where docs is    *)
(* what get/delete by id see (realtime) and searchable is what count sees  *)
(* (the content as of the last refresh).                                   *)

EmptyIndex == [docs |-> EmptyDict, searchable |-> EmptyDict]

\* es_client.options(ignore_status=404).get(index=..., id=...)
EsGet(cluster, index, id) ==
    IF id \in DOMAIN cluster[index].docs
    THEN [found |-> TRUE, source |-> cluster[index].docs[id]]
    ELSE [found |-> FALSE, source |-> None]

\* bulk(es_client, bulk_data): the index actions applied in order
RECURSIVE EsBulk(_, _)
EsBulk(cluster, bulk_data) ==
    IF bulk_data = <<>> THEN cluster
    ELSE LET action == Head(bulk_data)
             index == action["_index"]
         IN  EsBulk([cluster EXCEPT ![index].docs =
                         DictPut(@, action["_id"], action["_source"])],
                    Tail(bulk_data))

\* es_client.indices.refresh(index=...)
EsRefresh(cluster, index) ==
    [cluster EXCEPT ![index].searchable = cluster[index].docs]

\* es_client.delete(index=..., id=...): NotFoundError when the id is absent
EsDelete(cluster, index, id) ==
    IF id \in DOMAIN cluster[index].docs
    THEN [cluster |-> [cluster EXCEPT ![index].docs = DictWithout(@, {id})],
          error |-> None]
    ELSE [cluster |-> cluster, error |-> "NotFoundError"]

\* es_client.cat.count(index=..., format="json")[0]["count"]
EsCatCount(cluster, index) == Cardinality(DOMAIN cluster[index].searchable)

----------------------------------------------------------------------------
(* ElasticsearchStore.  An instance is its __dict__: the two private       *)
(* attributes.  Every method takes the content of the backend its client   *)
(* points at and returns the new content, the exception raised (or None),  *)
(* the value returned and the backend calls it issued, in order.           *)

Policies == {"FAIL", "SKIP", "OVERWRITE"}

\* a default policy of OVERWRITE, the backend's native behaviour
DefaultPolicy_Overwrite == "OVERWRITE"

\* the default of write_documents' policy parameter
DefaultPolicy == "FAIL"

\* ElasticsearchStore.__init__
NewStore(es_client, index_name) ==
    [k \in {"_es_client", "_index_name"} |->
        IF k = "_es_client" THEN es_client ELSE index_name]

to_dict(self) ==
    [es_client |-> self["_es_client"], index_name |-> self["_index_name"]]

\* a from_dict that falls back on the tests' index name
from_dict_DefaultIndex(data) == NewStore(data["es_client"], "movies")

from_dict(data) == NewStore(data["es_client"], data["index_name"])

count_documents(cluster, self) ==
    [cluster  |-> cluster,
     raised   |-> None,
     returned |-> EsCatCount(cluster, self["_index_name"]),
     calls    |-> <<"cat.count">>]

\* a lookup made under every policy
NeedsLookup_Always(policy) == TRUE

\* `if policy in (DuplicatePolicy.FAIL, DuplicatePolicy.SKIP)`
NeedsLookup(policy) == policy \in {"FAIL", "SKIP"}

\* a duplicate check that forgets the identifiers staged earlier in the call
IsDuplicate_BackendOnly(document, added_ids, es_response) == es_response.found

\* `if document.id in added_ids or es_response.get("found")`
IsDuplicate(document, added_ids, es_response) ==
    \/ \E i \in 1..Len(added_ids) : added_ids[i] = document.id
    \/ es_response.found

\* bulk_data.append({...}); added_ids.append(document.id)
Stage(self, document, st) ==
    [st EXCEPT
        !.bulk_data = Append(@, [k \in {"_index", "_id", "_source"} |->
                                    CASE k = "_index" -> self["_index_name"]
                                      [] k = "_id" -> document.id
                                      [] OTHER -> convert_document_to_es_source(document)]),
        !.added_ids = Append(@, document.id)]

\* one iteration of `for document in documents`
WriteStep(cluster, self, policy, document, st) ==
    IF NeedsLookup(policy)
    THEN LET es_response == EsGet(cluster, self["_index_name"], document.id)
             looked == [st EXCEPT !.calls = Append(@, "get")]
         IN  IF IsDuplicate(document, st.added_ids, es_response)
             THEN IF policy = "FAIL"
                  THEN [looked EXCEPT !.raised = "DuplicateDocumentError"]
                  ELSE IF policy = "SKIP"
                  THEN looked
                  ELSE Stage(self, document, looked)
             ELSE Stage(self, document, looked)
    ELSE Stage(self, document, st)

\* the loop, left at the first exception
RECURSIVE WriteLoop(_, _, _, _, _, _)
WriteLoop(cluster, self, policy, documents, i, st) ==
    IF i > Len(documents) \/ st.raised # None THEN st
    ELSE WriteLoop(cluster, self, policy, documents, i + 1,
                   WriteStep(cluster, self, policy, documents[i], st))

\* a flush that leaves out the refresh
WriteFlush_NoRefresh(cluster, self, bulk_data) ==
    [cluster |-> EsBulk(cluster, bulk_data), calls |-> <<"bulk">>]

\* bulk(self._es_client, bulk_data); self._es_client.indices.refresh(index=...)
WriteFlush(cluster, self, bulk_data) ==
    [cluster |-> EsRefresh(EsBulk(cluster, bulk_data), self["_index_name"]),
     calls   |-> <<"bulk", "indices.refresh">>]

\* a write that sends what it staged before it raises
write_documents_FlushBeforeRaise(cluster, self, documents, policy) ==
    LET st == WriteLoop(cluster, self, policy, documents, 1,
                        [bulk_data |-> <<>>, added_ids |-> <<>>,
                         calls |-> <<>>, raised |-> None])
        flushed == [cluster |-> EsRefresh(EsBulk(cluster, st.bulk_data),
                                          self["_index_name"]),
                    calls   |-> <<"bulk", "indices.refresh">>]
    IN  [cluster |-> flushed.cluster, raised |-> st.raised, returned |-> None,
         calls |-> st.calls \o flushed.calls]

write_documents(cluster, self, documents, policy) ==
    LET st == WriteLoop(cluster, self, policy, documents, 1,
                        [bulk_data |-> <<>>, added_ids |-> <<>>,
                         calls |-> <<>>, raised |-> None])
    IN  IF st.raised # None
        THEN [cluster |-> cluster, raised |-> st.raised, returned |-> None,
              calls |-> st.calls]
        ELSE LET flushed == WriteFlush(cluster, self, st.bulk_data)
             IN  [cluster |-> flushed.cluster, raised |-> None, returned |-> None,
                  calls |-> st.calls \o flushed.calls]

\* a delete that swallows NotFoundError
DeleteStep_IgnoreMissing(cluster, self, document_id, st) ==
    LET deleted == EsDelete(cluster, self["_index_name"], document_id)
    IN  [cluster |-> EsRefresh(deleted.cluster, self["_index_name"]),
         raised |-> None,
         calls |-> st.calls \o <<"delete", "indices.refresh">>]

\* a delete that leaves out the refresh
DeleteStep_NoRefresh(cluster, self, document_id, st) ==
    LET deleted == EsDelete(cluster, self["_index_name"], document_id)
    IN  IF deleted.error = "NotFoundError"
        THEN [cluster |-> cluster, raised |-> "MissingDocumentError",
              calls |-> Append(st.calls, "delete")]
        ELSE [cluster |-> deleted.cluster, raised |-> None,
              calls |-> Append(st.calls, "delete")]

\* the body of `for document_id in document_ids`: delete, refresh; NotFoundError
\* becomes MissingDocumentError
DeleteStep(cluster, self, document_id, st) ==
    LET deleted == EsDelete(cluster, self["_index_name"], document_id)
    IN  IF deleted.error = "NotFoundError"
        THEN [cluster |-> cluster, raised |-> "MissingDocumentError",
              calls |-> Append(st.calls, "delete")]
        ELSE [cluster |-> EsRefresh(deleted.cluster, self["_index_name"]),
              raised |-> None,
              calls |-> st.calls \o <<"delete", "indices.refresh">>]

RECURSIVE DeleteLoop(_, _, _, _)
DeleteLoop(self, document_ids, i, st) ==
    IF i > Len(document_ids) \/ st.raised # None THEN st
    ELSE DeleteLoop(self, document_ids, i + 1,
                    DeleteStep(st.cluster, self, document_ids[i], st))

\* a delete that goes on after a missing identifier and reports it at the end
RECURSIVE DeleteAll(_, _, _, _)
DeleteAll(self, document_ids, i, st) ==
    IF i > Len(document_ids) THEN st
    ELSE LET deleted == EsDelete(st.cluster, self["_index_name"], document_ids[i])
         IN  DeleteAll(self, document_ids, i + 1,
                 [cluster |-> EsRefresh(deleted.cluster, self["_index_name"]),
                  raised |-> IF deleted.error = "NotFoundError"
                             THEN "MissingDocumentError" ELSE st.raised,
                  calls |-> st.calls \o <<"delete", "indices.refresh">>])

delete_documents_BestEffort(cluster, self, document_ids) ==
    LET st == DeleteAll(self, document_ids, 1,
                        [cluster |-> cluster, raised |-> None, calls |-> <<>>])
    IN  [cluster |-> st.cluster, raised |-> st.raised, returned |-> None,
         calls |-> st.calls]

delete_documents(cluster, self, document_ids) ==
    LET st == DeleteLoop(self, document_ids, 1,
                         [cluster |-> cluster, raised |-> None, calls |-> <<>>])
    IN  [cluster |-> st.cluster, raised |-> st.raised, returned |-> None,
         calls |-> st.calls]

----------------------------------------------------------------------------
(* What the callers pass *)

Clients == {"es_client", "es_other"}
IndexNames == {"movies", "other"}

NoMetadata == EmptyDict
ExtraMetadata == [meta_key |-> "meta_value"]

\* Document.from_dict({"content": ..., "metadata": ...}) as the tests build it
Document(content, metadata) ==
    DocumentFromDict([content |-> content, content_type |-> "text",
                      id_hash_keys |-> None, score |-> None,
                      embedding |-> None, metadata |-> metadata])

DocA == Document("A unique document", NoMetadata)
DocB == Document("A duplicated document", NoMetadata)
DocC == Document("A duplicated document", ExtraMetadata)

Docs == {DocA, DocB, DocC}
DocIds == {d.id : d \in Docs}

PolicyArgs == Policies \cup {"omitted"}

EffectivePolicy(policy_arg) ==
    IF policy_arg = "omitted" THEN DefaultPolicy ELSE policy_arg

----------------------------------------------------------------------------
(* The store under test: one instance on the "movies" index, as in the     *)
(* tests' setUp, and the calls made through it.                            *)

IndexOf(s) == es[stores[s]["_es_client"]][stores[s]["_index_name"]]

NoCall ==
    [op |-> "init", store |-> 0, documents |-> <<>>, policy_arg |-> None,
     document_ids |-> <<>>, raised |-> None, returned |-> None,
     calls |-> <<>>, pre |-> EmptyIndex]

NoMapper == [pc |-> "idle", document |-> None, source |-> None, back |-> None]

Call(s, op, documents, policy_arg, document_ids, r) ==
    /\ es' = [es EXCEPT ![stores[s]["_es_client"]] = r.cluster]
    /\ last' = [op |-> op, store |-> s, documents |-> documents,
                policy_arg |-> policy_arg, document_ids |-> document_ids,
                raised |-> r.raised, returned |-> r.returned,
                calls |-> r.calls, pre |-> IndexOf(s)]
    /\ UNCHANGED <<stores, origin, mapper>>

WriteDocuments(s, documents, policy_arg) ==
    Call(s, "write_documents", documents, policy_arg, <<>>,
         write_documents(es[stores[s]["_es_client"]], stores[s], documents,
                         EffectivePolicy(policy_arg)))

DeleteDocuments(s, document_ids) ==
    Call(s, "delete_documents", <<>>, None, document_ids,
         delete_documents(es[stores[s]["_es_client"]], stores[s], document_ids))

CountDocuments(s) ==
    Call(s, "count_documents", <<>>, None, <<>>,
         count_documents(es[stores[s]["_es_client"]], stores[s]))

Init ==
    /\ es = [c \in Clients |-> [i \in IndexNames |-> EmptyIndex]]
    /\ stores = <<NewStore("es_client", "movies")>>
    /\ origin = <<0>>
    /\ last = NoCall
    /\ mapper = NoMapper

Write == \E documents \in SeqUpTo(Docs, MaxDocs), policy_arg \in PolicyArgs :
            WriteDocuments(1, documents, policy_arg)

Delete == \E document_ids \in SeqUpTo(DocIds, MaxIds) : DeleteDocuments(1, document_ids)

Count == CountDocuments(1)

Next == Write \/ Delete \/ Count

Spec == Init /\ [][Next]_vars

----------------------------------------------------------------------------
(* The mapper on its own: a Document, converted to its ES source, and the  *)
(* source converted back.                                                  *)

ReservedNames == {"content", "content_type", "embedding", "id_hash_keys", "score", "source"}

MetaKeys == {"meta_key", "source", "score"}

MapperMetadata == UNION {[S -> {"meta_value"}] : S \in SUBSET MetaKeys}

MapperDocs ==
    {DocumentFromDict([content |-> c, content_type |-> "text", id_hash_keys |-> None,
                       score |-> sc, embedding |-> e, metadata |-> m]) :
        c \in {"A unique document", "A duplicated document"},
        sc \in {None, "0.5"}, e \in {None, "vector"}, m \in MapperMetadata}

InitMapper ==
    /\ es = [c \in Clients |-> [i \in IndexNames |-> EmptyIndex]]
    /\ stores = <<>>
    /\ origin = <<>>
    /\ last = NoCall
    /\ mapper \in {[pc |-> "document", document |-> d, source |-> None, back |-> None] :
                      d \in MapperDocs}

ToEsSource ==
    /\ mapper.pc = "document"
    /\ mapper' = [mapper EXCEPT !.pc = "source",
                     !.source = convert_document_to_es_source(mapper.document)]
    /\ UNCHANGED <<es, stores, origin, last>>

ToDocument ==
    /\ mapper.pc = "source"
    /\ mapper' = [mapper EXCEPT !.pc = "back",
                     !.back = convert_es_source_to_document(mapper.source)]
    /\ UNCHANGED <<es, stores, origin, last>>

NextMapper == ToEsSource \/ ToDocument

SpecMapper == InitMapper /\ [][NextMapper]_vars

----------------------------------------------------------------------------
(* Store configuration: instances constructed on any backend and index,    *)
(* instances recreated with from_dict(to_dict()), and calls made through   *)
(* any of them.                                                            *)

ConfigDocs == {DocC}
ConfigIds == {d.id : d \in ConfigDocs}

Created(op, self, from) ==
    /\ Len(stores) < MaxStores
    /\ stores' = Append(stores, self)
    /\ origin' = Append(origin, from)
    /\ last' = [NoCall EXCEPT !.op = op, !.store = Len(stores) + 1]
    /\ UNCHANGED <<es, mapper>>

Construct == \E es_client \in Clients, index_name \in IndexNames :
                Created("__init__", NewStore(es_client, index_name), 0)

Recreate == \E s \in 1..Len(stores) :
                Created("from_dict", from_dict(to_dict(stores[s])), s)

ConfigWrite == \E s \in 1..Len(stores), documents \in SeqUpTo(ConfigDocs, MaxConfigDocs),
                  policy_arg \in PolicyArgs :
                  WriteDocuments(s, documents, policy_arg)

ConfigDelete == \E s \in 1..Len(stores), document_ids \in SeqUpTo(ConfigIds, MaxConfigDocs) :
                   DeleteDocuments(s, document_ids)

ConfigCount == \E s \in 1..Len(stores) : CountDocuments(s)

InitConfig ==
    /\ es = [c \in Clients |-> [i \in IndexNames |-> EmptyIndex]]
    /\ \E es_client \in Clients, index_name \in IndexNames :
          stores = <<NewStore(es_client, index_name)>>
    /\ origin = <<0>>
    /\ last = NoCall
    /\ mapper = NoMapper

NextConfig == Construct \/ Recreate \/ ConfigWrite \/ ConfigDelete \/ ConfigCount

SpecConfig == InitConfig /\ [][NextConfig]_vars

----------------------------------------------------------------------------
(* Vocabulary of the properties: the last call, the index it acted on      *)
(* before (last.pre) and after (Cur), and what a read returns now.         *)

Cur == IndexOf(last.store)

CountNow ==
    count_documents(es[stores[last.store]["_es_client"]], stores[last.store]).returned

CountBefore == Cardinality(DOMAIN last.pre.searchable)

FoundNow(id) ==
    EsGet(es[stores[last.store]["_es_client"]],
          stores[last.store]["_index_name"], id).found

IdsIn(documents) == {documents[i].id : i \in 1..Len(documents)}

Elems(seq) == {seq[i] : i \in 1..Len(seq)}

FirstWithId(documents, id) ==
    documents[CHOOSE i \in 1..Len(documents) :
                 /\ documents[i].id = id
                 /\ \A j \in 1..(i - 1) : documents[j].id # id]

LastWithId(documents, id) ==
    documents[CHOOSE i \in 1..Len(documents) :
                 /\ documents[i].id = id
                 /\ \A j \in (i + 1)..Len(documents) : documents[j].id # id]

\* some record's identifier is stored already or carried by an earlier record
HasDuplicate(stored, documents) ==
    \E i \in 1..Len(documents) :
        \/ documents[i].id \in DOMAIN stored
        \/ \E j \in 1..(i - 1) : documents[j].id = documents[i].id

\* the positions of document_ids whose identifier is not stored when processed
Misses(stored, document_ids) ==
    {i \in 1..Len(document_ids) :
        \/ document_ids[i] \notin DOMAIN stored
        \/ \E j \in 1..(i - 1) : document_ids[j] = document_ids[i]}

FirstMiss(stored, document_ids) ==
    CHOOSE i \in Misses(stored, document_ids) :
        \A j \in Misses(stored, document_ids) : i <= j

Wrote(policy_args) == last.op = "write_documents" /\ last.policy_arg \in policy_args

----------------------------------------------------------------------------
(* C1: write_documents(docs, SKIP) raises nothing; every identifier stored *)
(* before keeps its document; every new identifier of docs is stored with  *)
(* the projection of the first record carrying it; count grows by the      *)
(* number of new distinct identifiers.  [A, B(x), C(x, extra metadata)] on *)
(* an empty index: count grows by 2 and x holds B's projection, not C's.   *)
C1_SkipKeepsFirst ==
    Wrote({"SKIP"}) =>
        LET pre == last.pre.docs
            cur == Cur.docs
            new == IdsIn(last.documents) \ DOMAIN pre
        IN  /\ last.raised = None
            /\ DOMAIN cur = DOMAIN pre \cup new
            /\ \A id \in DOMAIN pre : cur[id] = pre[id]
            /\ \A id \in new :
                 cur[id] = convert_document_to_es_source(FirstWithId(last.documents, id))
            /\ CountNow = CountBefore + Cardinality(new)
            /\ (last.documents = <<DocA, DocB, DocC>> /\ pre = EmptyDict) =>
                 /\ CountNow = CountBefore + 2
                 /\ cur[DocB.id] = convert_document_to_es_source(DocB)
                 /\ cur[DocB.id] # convert_document_to_es_source(DocC)

C1_Witness ==
    /\ Wrote({"SKIP"})
    /\ last.documents = <<DocA, DocB, DocC>>
    /\ last.pre.docs = EmptyDict
    /\ CountNow = 2
    /\ "meta_key" \notin DOMAIN Cur.docs[DocC.id]

C3_FailRaisesIffDuplicate ==
    Wrote({"FAIL", "omitted"}) =>
        /\ last.raised = "DuplicateDocumentError"
             <=> HasDuplicate(last.pre.docs, last.documents)
        /\ ~HasDuplicate(last.pre.docs, last.documents) =>
             /\ last.raised = None
             /\ \A i \in 1..Len(last.documents) :
                  /\ last.documents[i].id \in DOMAIN Cur.docs
                  /\ Cur.docs[last.documents[i].id]
                       = convert_document_to_es_source(last.documents[i])

C3_Witness ==
    /\ Wrote({"omitted"})
    /\ last.documents = <<DocA, DocB, DocB>>
    /\ last.pre.docs = EmptyDict
    /\ last.raised = "DuplicateDocumentError"

(* C4: deleting an identifier that is not stored raises                    *)
(* MissingDocumentError; deleting a list of one stored identifier removes  *)
(* exactly that document, leaves the others unchanged and makes count one  *)
(* less than before.                                                       *)
C4_DeleteOne ==
    last.op = "delete_documents" =>
        LET pre == last.pre.docs
            ids == last.document_ids
        IN  /\ (\E i \in 1..Len(ids) : ids[i] \notin DOMAIN pre) =>
                 last.raised = "MissingDocumentError"
            /\ (Len(ids) = 1 /\ ids[1] \in DOMAIN pre) =>
                 /\ last.raised = None
                 /\ Cur.docs = DictWithout(pre, {ids[1]})
                 /\ CountNow + 1 = CountBefore

C4_Witness ==
    /\ last.op = "delete_documents"
    /\ last.document_ids = <<DocB.id>>
    /\ DOMAIN last.pre.docs = {DocA.id, DocB.id}
    /\ last.raised = None
    /\ CountNow = 1
    /\ DOMAIN Cur.docs = {DocA.id}

(* C5: after any sequence of completed calls, count_documents() returns    *)
(* the number of distinct identifiers stored in the bound index; N records *)
(* with distinct identifiers written into an empty index give a count of N.*)
C5_CountIsStored ==
    /\ \A s \in 1..Len(stores) :
         count_documents(es[stores[s]["_es_client"]], stores[s]).returned
           = Cardinality(DOMAIN IndexOf(s).docs)
    /\ last.op = "count_documents" =>
         last.returned = Cardinality(DOMAIN Cur.docs)
    /\ ( /\ last.op = "write_documents"
         /\ last.raised = None
         /\ last.pre.docs = EmptyDict
         /\ Cardinality(IdsIn(last.documents)) = Len(last.documents) ) =>
         CountNow = Len(last.documents)

C5_Witness ==
    /\ last.op = "count_documents"
    /\ last.returned = 2
    /\ DOMAIN Cur.docs = {DocA.id, DocB.id}

(* C7: when write_documents returns normally every identifier of the call  *)
(* is visible to the next read (count, or a later existence check) and no  *)
(* write is left unrefreshed; when delete_documents returns normally every *)
(* deleted identifier is invisible; a write that returns issued its        *)
(* lookups, then exactly one bulk, then one refresh.                       *)
C7_ReadAfterWrite ==
    /\ (last.op = "write_documents" /\ last.raised = None) =>
         /\ Cur.searchable = Cur.docs
         /\ \A id \in IdsIn(last.documents) :
              id \in DOMAIN Cur.searchable /\ FoundNow(id)
         /\ CountNow = Cardinality(DOMAIN Cur.docs)
         /\ LET lookups == IF EffectivePolicy(last.policy_arg) \in {"FAIL", "SKIP"}
                           THEN Len(last.documents) ELSE 0
            IN  last.calls = [i \in 1..lookups |-> "get"]
                                \o <<"bulk", "indices.refresh">>
    /\ (last.op = "delete_documents" /\ last.raised = None) =>
         /\ Cur.searchable = Cur.docs
         /\ \A i \in 1..Len(last.document_ids) :
              /\ last.document_ids[i] \notin DOMAIN Cur.searchable
              /\ ~FoundNow(last.document_ids[i])
         /\ CountNow = Cardinality(DOMAIN Cur.docs)

C7_Witness ==
    /\ Wrote({"FAIL"})
    /\ last.raised = None
    /\ last.documents = <<DocA, DocC>>
    /\ last.calls = <<"get", "get", "bulk", "indices.refresh">>
    /\ CountBefore = 0
    /\ CountNow = 2
    /\ FoundNow(DocC.id)

(* C9: delete_documents processes the identifiers in order and raises      *)
(* MissingDocumentError at the first one not stored when processed (a      *)
(* repeated identifier included); the identifiers before it stay deleted,  *)
(* none after it is deleted; if there is none, all are removed.            *)
C9_DeleteFailFast ==
    last.op = "delete_documents" =>
        LET pre == last.pre.docs
            ids == last.document_ids
        IN  IF Misses(pre, ids) # {}
            THEN /\ last.raised = "MissingDocumentError"
                 /\ Cur.docs = DictWithout(pre,
                        {ids[j] : j \in 1..(FirstMiss(pre, ids) - 1)})
            ELSE /\ last.raised = None
                 /\ Cur.docs = DictWithout(pre, Elems(ids))

C9_Witness ==
    /\ last.op = "delete_documents"
    /\ last.document_ids = <<DocA.id, DocA.id>>
    /\ DOMAIN last.pre.docs = {DocA.id, DocB.id}
    /\ last.raised = "MissingDocumentError"
    /\ DOMAIN Cur.docs = {DocB.id}

(* C10: when write_documents under FAIL raises DuplicateDocumentError, no  *)
(* bulk and no refresh was issued and the index holds exactly what it held *)
(* before; the count has not grown.                                        *)
C10_FailedWriteLeavesNothing ==
    (last.op = "write_documents" /\ last.raised = "DuplicateDocumentError") =>
        /\ "bulk" \notin Elems(last.calls)
        /\ "indices.refresh" \notin Elems(last.calls)
        /\ Cur = last.pre
        /\ CountNow = CountBefore

C10_Witness ==
    /\ last.op = "write_documents"
    /\ last.raised = "DuplicateDocumentError"
    /\ last.documents = <<DocA, DocB>>
    /\ DOMAIN last.pre.docs = {DocB.id}

(* C6: for every Document whose metadata keys are disjoint from the fixed  *)
(* field names, converting it to its ES source and back gives the same     *)
(* Document: identifier, content, content_type, id_hash_keys, score,       *)
(* embedding and a metadata mapping with the same keys and values.         *)
C6_MapperRoundTrip ==
    ( /\ mapper.pc = "back"
      /\ DOMAIN mapper.document.metadata \cap ReservedNames = {} ) =>
        mapper.back = mapper.document

(* C8: a store recreated with from_dict(to_dict(s)) is another instance,   *)
(* bound to the same client handle and index name as s; every count, write *)
(* and delete through it has the result and the effect it has through s;   *)
(* to_dict holds the client handle and the index name and nothing else.    *)
C8_ConfigRoundTrip ==
    \A i \in 1..Len(stores) :
        origin[i] # 0 =>
            LET s == stores[origin[i]]
                t == stores[i]
            IN  /\ i # origin[i]
                /\ t["_es_client"] = s["_es_client"]
                /\ t["_index_name"] = s["_index_name"]
                /\ DOMAIN to_dict(s) = {"es_client", "index_name"}
                /\ to_dict(s)["es_client"] \in Clients
                /\ to_dict(s)["index_name"] \in IndexNames
                /\ count_documents(es[t["_es_client"]], t)
                     = count_documents(es[s["_es_client"]], s)
                /\ \A documents \in SeqUpTo(ConfigDocs, MaxConfigDocs), policy \in Policies :
                     write_documents(es[t["_es_client"]], t, documents, policy)
                       = write_documents(es[s["_es_client"]], s, documents, policy)
                /\ \A document_ids \in SeqUpTo(ConfigIds, MaxConfigDocs) :
                     delete_documents(es[t["_es_client"]], t, document_ids)
                       = delete_documents(es[s["_es_client"]], s, document_ids)

C8_Witness ==
    /\ last.op = "write_documents"
    /\ last.raised = None
    /\ last.documents = <<DocC>>
    /\ origin[last.store] # 0
    /\ stores[last.store] = NewStore("es_other", "other")
    /\ count_documents(es["es_other"], stores[origin[last.store]]).returned = 1
    /\ Cardinality(DOMAIN es["es_other"]["movies"].docs) = 0

====
